---------------------------- MODULE Spec2Model ----------------------------
(***************************************************************************)
(* Model of the AtCoder memory-limit recovery code of naoya/oj:            *)
(*   onlinejudge_command/atcoder_robust.py            (graceful wrapper)   *)
(*   onlinejudge_command/atcoder_memory_limit_patch.py (strict patch)      *)
(*                                                                         *)
(* Page texts are sequences of Unicode code points, so that the regular    *)
(* expressions, str.strip, the substring tests and str.replace of the      *)
(* source are computed character by character.                             *)
(***************************************************************************)
EXTENDS Integers, Sequences, FiniteSets, TLC

VARIABLES
    mode,        \* "graceful" (RobustAtCoderProblem) / "strict" (patched_from_html) / "extract"
    pc,          \* position of the running call
    case_type,   \* 'sample' / 'system' (graceful mode), "html" (strict mode)
    hasSession,  \* FALSE when the caller passed session=None (the default)
    html,        \* the page text: resp.text (graceful) or the html argument (strict)
    served,      \* the text handed to the retried operation (MockResponse.text / modified html)
    parsed,      \* parsed_memory_limit: the extractor's result, NotFound for None
    sessionGet,  \* session.get: stack of installed mock_get closures, <<>> is the real one
    original_get,\* the local original_get saved by the running graceful call
    opCalls,     \* invocations of the wrapped operation in the running call
    opErr,       \* outcome of each invocation so far (NoErr for success)
    fetchErr,    \* outcome of the recovery's own page fetch
    pageFetches, \* live fetches of the page made by the recovery itself
    exCalls,     \* calls of the extractor in the running call
    injections,  \* fragments injected in the running call
    mockHits,    \* fetches of the retried operation answered by mock_get
    liveHits,    \* fetches of the retried operation forwarded to original_get
    result,      \* outcome of the call, NoResult while it runs
    calls,       \* coordinator calls started so far
    gets,        \* fetches of the retried operation: url, kwargs, answer, forwarded call
    problem,     \* the object last given to wrap_atcoder_problem
    wrapped,     \* what wrap_atcoder_problem returned for it
    threads,     \* concurrent graceful recoveries on one session: position and locals
    lateGets,    \* fetches made on the session after the concurrent recoveries returned
    from_html,   \* AtCoderProblemData._from_html: the library and its patch layers
    frames,      \* running frames of a _from_html call: layer, position, html, caught error
    ret          \* outcome handed back by the frame that just finished, <<>> when none

vars == <<mode, pc, case_type, hasSession, html, served, parsed, sessionGet, original_get,
          opCalls, opErr, fetchErr, pageFetches, exCalls, injections,
          mockHits, liveHits, result, calls, gets, problem, wrapped, threads, lateGets,
          from_html, frames, ret>>

---------------------------------------------------------------------------
(* Characters                                                              *)

\* the printable ASCII characters U+0020..U+005F and U+0061..U+007E
AsciiLow  == " !\"#$%&'()*+,-./0123456789:;<=>?@ABCDEFGHIJKLMNOPQRSTUVWXYZ[\\]^_"
AsciiHigh == "abcdefghijklmnopqrstuvwxyz{|}~"

\* code point of a printable ASCII character given as a one-character string
Ord(c) ==
    IF \E k \in 1..Len(AsciiLow) : SubSeq(AsciiLow, k, k) = c
    THEN 31 + CHOOSE k \in 1..Len(AsciiLow) : SubSeq(AsciiLow, k, k) = c
    ELSE 96 + CHOOSE k \in 1..Len(AsciiHigh) : SubSeq(AsciiHigh, k, k) = c

\* a string literal of the source as a sequence of code points
S(str) == [i \in 1..Len(str) |-> Ord(SubSeq(str, i, i))]

\* U+30E1 U+30E2 U+30EA U+5236 U+9650
JaLabel == <<12513, 12514, 12522, 21046, 38480>>
EnLabel == S("Memory Limit")

\* re.IGNORECASE on the characters the inputs are made of
Lower(c) == IF c \in 65..90 THEN c + 32 ELSE c
Upper(c) == IF c \in 97..122 THEN c - 32 ELSE c

\* \d, \s and \w of a Python 3 str pattern
IsDigit(c) == c \in 48..57
IsSpace(c) == c \in (9..13) \cup (28..32) \cup {133, 160, 5760, 8232, 8233, 8239, 8287, 12288}
                    \cup (8192..8202)
IsWord(c) == \/ IsDigit(c)
             \/ Lower(c) \in 97..122
             \/ c = 95
             \/ c \in (12353..12543) \cup (19968..40959)   \* kana and CJK ideographs

InClass(cls, c) ==
    CASE cls = "d"      -> IsDigit(c)
      [] cls = "s"      -> IsSpace(c)
      [] cls = "colon_s" -> c = 58 \/ IsSpace(c)
      [] cls = "KMGT"   -> Lower(c) \in {107, 109, 103, 116}
      [] cls = "not_gt" -> c # 62
      [] cls = "not_lt" -> c # 60
      [] cls = "dot"    -> c = 46

---------------------------------------------------------------------------
(* Regular expressions: a backtracking matcher with Python's priorities    *)

Lit(str)  == [t |-> "lit", s |-> S(str)]
LitSeq(q) == [t |-> "lit", s |-> q]
One(cls)  == [t |-> "cls", cls |-> cls, min |-> 1, max |-> 1]
Opt(cls)  == [t |-> "cls", cls |-> cls, min |-> 0, max |-> 1]
Star(cls) == [t |-> "cls", cls |-> cls, min |-> 0, max |-> -1]
Plus(cls) == [t |-> "cls", cls |-> cls, min |-> 1, max |-> -1]
OptSeq(sub) == [t |-> "opt", sub |-> sub]
Open(g)   == [t |-> "open", g |-> g]
Close(g)  == [t |-> "close", g |-> g]
WordB     == [t |-> "wb"]

NoMatch == <<>>

\* the literal q occurs in s at position i, ignoring case
RECURSIVE LitAt(_, _, _, _)
LitAt(q, j, s, i) ==
    IF j > Len(q) THEN TRUE
    ELSE IF i + j - 1 > Len(s) THEN FALSE
    ELSE IF Lower(s[i + j - 1]) # Lower(q[j]) THEN FALSE
    ELSE LitAt(q, j + 1, s, i)

\* length of the longest run of class characters from position i, at most max (max < 0: unbounded)
RECURSIVE Run(_, _, _, _, _)
Run(cls, s, i, n, max) ==
    IF n = max \/ i + n > Len(s) THEN n
    ELSE IF InClass(cls, s[i + n]) THEN Run(cls, s, i, n + 1, max)
    ELSE n

WordBoundaryAt(s, i) ==
    LET before == i > 1 /\ IsWord(s[i - 1])
        after  == i <= Len(s) /\ IsWord(s[i])
    IN  before # after

\* Match the node list from position i.  g maps group number to <<start, end>>
\* (end exclusive).  The result is NoMatch or <<end, g>> of the first success in
\* backtracking order: greedy quantifiers, optional parts tried before being skipped.
RECURSIVE M(_, _, _, _)
RECURSIVE TryLens(_, _, _, _, _, _)
M(nodes, s, i, g) ==
    IF nodes = <<>> THEN <<i, g>>
    ELSE LET n    == Head(nodes)
             rest == Tail(nodes)
         IN  CASE n.t = "lit"   -> IF LitAt(n.s, 1, s, i)
                                     THEN M(rest, s, i + Len(n.s), g)
                                     ELSE NoMatch
               [] n.t = "cls"   -> LET r == Run(n.cls, s, i, 0, n.max)
                                   IN  IF r < n.min THEN NoMatch
                                       ELSE TryLens(rest, s, i, r, n.min, g)
               [] n.t = "opt"   -> LET with == M(n.sub \o rest, s, i, g)
                                   IN  IF with # NoMatch THEN with ELSE M(rest, s, i, g)
               [] n.t = "open"  -> M(rest, s, i, [g EXCEPT ![n.g] = <<i, i>>])
               [] n.t = "close" -> M(rest, s, i, [g EXCEPT ![n.g] = <<g[n.g][1], i>>])
               [] n.t = "wb"    -> IF WordBoundaryAt(s, i) THEN M(rest, s, i, g) ELSE NoMatch
TryLens(rest, s, i, len, min, g) ==
    LET r == M(rest, s, i + len, g)
    IN  IF r # NoMatch THEN r
        ELSE IF len > min THEN TryLens(rest, s, i, len - 1, min, g)
        ELSE NoMatch

NoGroups == [k \in 1..2 |-> <<0, 0>>]

\* re.match: anchored at position i
re_match_at(pattern, s, i) == M(pattern, s, i, NoGroups)

\* re.search from position i: the leftmost start that matches; <<start, end, g>> or NoMatch
re_search_from(pattern, s, i) ==
    LET starts == {j \in i..(Len(s) + 1) : re_match_at(pattern, s, j) # NoMatch}
    IN  IF starts = {} THEN NoMatch
        ELSE LET j == CHOOSE x \in starts : \A y \in starts : x <= y
                 r == re_match_at(pattern, s, j)
             IN  <<j, r[1], r[2]>>

re_search(pattern, s) == re_search_from(pattern, s, 1)

\* match.group(k) of a search result
Group(s, m, k) == SubSeq(s, m[3][k][1], m[3][k][2] - 1)

\* re.findall of a pattern with one group: the group of each non-overlapping match, in order
RECURSIVE re_findall_from(_, _, _)
re_findall_from(pattern, s, i) ==
    LET m == re_search_from(pattern, s, i)
    IN  IF m = NoMatch THEN <<>>
        ELSE <<Group(s, m, 1)>>
                 \o re_findall_from(pattern, s, IF m[2] > m[1] THEN m[2] ELSE m[2] + 1)

re_findall(pattern, s) == re_findall_from(pattern, s, 1)

\* str.strip()
RECURSIVE LStrip(_)
LStrip(s) == IF s # <<>> /\ IsSpace(Head(s)) THEN LStrip(Tail(s)) ELSE s
RECURSIVE RStrip(_)
RStrip(s) == IF s # <<>> /\ IsSpace(s[Len(s)]) THEN RStrip(SubSeq(s, 1, Len(s) - 1)) ELSE s
\* variant: group(1) returned without .strip()
strip_none(s) == s
strip(s) == RStrip(LStrip(s))

\* needle in haystack (case-sensitive), and the position of its first occurrence (0: none)
RECURSIVE ExactAt(_, _, _, _)
ExactAt(q, j, s, i) ==
    IF j > Len(q) THEN TRUE
    ELSE IF i + j - 1 > Len(s) THEN FALSE
    ELSE IF s[i + j - 1] # q[j] THEN FALSE
    ELSE ExactAt(q, j + 1, s, i)
RECURSIVE find_from(_, _, _)
find_from(q, s, i) ==
    IF i + Len(q) - 1 > Len(s) THEN 0
    ELSE IF ExactAt(q, 1, s, i) THEN i
    ELSE find_from(q, s, i + 1)
find(q, s) == find_from(q, s, 1)
Contains(q, s) == find(q, s) # 0

\* variant: the last occurrence is replaced instead of the first
replace_last(s, old, new) ==
    LET ps == {i \in 1..Len(s) : ExactAt(old, 1, s, i)}
        p  == CHOOSE i \in ps : \A j \in ps : j <= i
    IN  IF ps = {} THEN s
        ELSE SubSeq(s, 1, p - 1) \o new \o SubSeq(s, p + Len(old), Len(s))

\* s.replace(old, new, 1)
replace_first(s, old, new) ==
    LET p == find(old, s)
    IN  IF p = 0 THEN s
        ELSE SubSeq(s, 1, p - 1) \o new \o SubSeq(s, p + Len(old), Len(s))

---------------------------------------------------------------------------
(* The extractor                                                           *)

\* \d+(?:\.\d+)?\s*[KMGT]?B
Token == <<Plus("d"), OptSeq(<<One("dot"), Plus("d")>>), Star("s"), Opt("KMGT"), Lit("B")>>

\* Memory\s+Limit[:\s]*(TOKEN)
PatA == <<Lit("Memory"), Plus("s"), Lit("Limit"), Star("colon_s"), Open(1)>> \o Token \o <<Close(1)>>
\* JaLabel[:\s]*(TOKEN)
PatB == <<LitSeq(JaLabel), Star("colon_s"), Open(1)>> \o Token \o <<Close(1)>>
\* ([^<]*[KMGT]?B[^<]*)</td>
CellValue == <<Open(1), Star("not_lt"), Opt("KMGT"), Lit("B"), Star("not_lt"), Close(1), Lit("</td>")>>
\* <th[^>]*>Memory\s+Limit</th>\s*<td[^>]*>(...)</td>
PatC == <<Lit("<th"), Star("not_gt"), Lit(">Memory"), Plus("s"), Lit("Limit</th>"), Star("s"),
          Lit("<td"), Star("not_gt"), Lit(">")>> \o CellValue
PatD == <<Lit("<th"), Star("not_gt"), Lit(">"), LitSeq(JaLabel), Lit("</th>"), Star("s"),
          Lit("<td"), Star("not_gt"), Lit(">")>> \o CellValue
\* (TOKEN)\s*memory
PatE == <<Open(1)>> \o Token \o <<Close(1), Star("s"), Lit("memory")>>
\* limit[^>]*>([^<]*\d+[^<]*[KMGT]?B)
PatF == <<Lit("limit"), Star("not_gt"), Lit(">"), Open(1), Star("not_lt"), Plus("d"),
          Star("not_lt"), Opt("KMGT"), Lit("B"), Close(1)>>

\* variant: the table-row patterns listed first
patterns_reordered == <<PatC, PatD, PatA, PatB, PatE, PatF>>

patterns == <<PatA, PatB, PatC, PatD, PatE, PatF>>

\* \b(TOKEN)\b
ScanPattern == <<WordB, Open(1)>> \o Token \o <<Close(1), WordB>>
\* (\d+(?:\.\d+)?)\s*([KMGT]?)B
ValuePattern == <<Open(1), Plus("d"), OptSeq(<<One("dot"), Plus("d")>>), Close(1), Star("s"),
                  Open(2), Opt("KMGT"), Close(2), Lit("B")>>

NotFound == <<-1>>

\* for pattern in patterns: the stripped group 1 of the first pattern that matches
RECURSIVE labeled_from(_, _, _)
labeled_from(pats, k, h) ==
    IF k > Len(pats) THEN NotFound
    ELSE LET match == re_search(pats[k], h)
         IN  IF match # NoMatch THEN strip(Group(h, match, 1))
             ELSE labeled_from(pats, k + 1, h)

\* re.findall(r'\b(TOKEN)\b', html, re.IGNORECASE)
common_memory_values(h) == re_findall(ScanPattern, h)

\* float(number) as the exact fraction <<numerator, denominator>>
RECURSIVE float_from(_, _, _, _)
float_from(q, j, num, den) ==
    IF j > Len(q) THEN <<num, den>>
    ELSE IF q[j] = 46 THEN float_from(q, j + 1, num, 1)
    ELSE float_from(q, j + 1, num * 10 + (q[j] - 48), IF den = 0 THEN 0 ELSE den * 10)
float(q) == LET r == float_from(q, 1, 0, 0) IN <<r[1], IF r[2] = 0 THEN 1 ELSE r[2]>>

upper(q) == [j \in 1..Len(q) |-> Upper(q[j])]

\* the megabyte value the scan compares, as a fraction
KB == S("KB")
MB == S("MB")
GB == S("GB")
TB == S("TB")
mb_value(number, unit) ==
    IF unit = KB THEN <<number[1], number[2] * 1024>>
    ELSE IF unit = GB THEN <<number[1] * 1024, number[2]>>
    ELSE IF unit = TB THEN <<number[1] * 1024 * 1024, number[2]>>
    ELSE number

PlausibleMin == 64
PlausibleMax == 8192

\* the body of "for value in common_memory_values": is value appended to memory_candidates
is_candidate(value) ==
    LET match == re_match_at(ValuePattern, value, 1)
    IN  /\ match # NoMatch
        /\ LET number == float(SubSeq(value, match[2][1][1], match[2][1][2] - 1))
               unit   == upper(SubSeq(value, match[2][2][1], match[2][2][2] - 1))
               mb     == mb_value(number, unit)
           IN  /\ PlausibleMin * mb[2] <= mb[1]
               /\ mb[1] <= PlausibleMax * mb[2]

memory_candidates(h) == SelectSeq(common_memory_values(h), is_candidate)

parse_memory_limit_from_html(h) ==
    LET labeled == labeled_from(patterns, 1, h)
    IN  IF labeled # NotFound THEN labeled
        ELSE IF memory_candidates(h) # <<>> THEN memory_candidates(h)[1]
        ELSE NotFound

\* the copy of the extractor in atcoder_memory_limit_patch.py
patched_parse_memory_limit_from_html(h) ==
    LET labeled == labeled_from(patterns, 1, h)
    IN  IF labeled # NotFound THEN labeled
        ELSE IF memory_candidates(h) # <<>> THEN memory_candidates(h)[1]
        ELSE NotFound

---------------------------------------------------------------------------
(* Inputs                                                                  *)

PieceA == S("Memory Limit: 256 MB")
PieceB == JaLabel \o S(":1 TB")
PieceC == S("<th>Memory Limit</th><td> 1024 MB </td>")
PieceD == S("<th>") \o JaLabel \o S("</th><td>512 MB</td>")
PieceE == S("64 mb memory")
PieceF == S("<p class=limit>2 GB")
PieceG == S("Stack: 8 MB")
PieceH == S(" 128 MB ")
PieceI == S("<th>Memory Limit</th><td>TBD</td>")
PieceJ == S("<th>Memory Limit</th><td>N/A</td>")
PieceK == S("Memory Limit")
PieceL == S("1 TB")
PieceM == S("</table>")
PieceN == S(" 2 GB ")
PieceO == S(" 65536 KB ")
PieceP == S(" 1024 KB ")

Pieces == <<PieceA, PieceB, PieceC, PieceD, PieceE, PieceF, PieceG, PieceH, PieceI,
            PieceJ, PieceK, PieceL, PieceM, PieceN, PieceO, PieceP>>

\* texts of the extractor specification: at most MaxPieces pieces, concatenated
MaxPieces == 2

RECURSIVE Concat(_)
Concat(ps) == IF ps = <<>> THEN <<>> ELSE Pieces[Head(ps)] \o Concat(Tail(ps))

Texts == {Concat(ps) : ps \in UNION {[1..n -> 1..Len(Pieces)] : n \in 0..MaxPieces}}

\* pages of the coordinator specification
PageNoLimit   == S("<table><tr><th>Time Limit</th><td>2 sec</td></tr></table>")
PageLabeled   == S("<div>Memory Limit: 256 MB</div>")
PageTable     == S("<table><tr><td>1024 MB</td></tr></table><table></table>")
PageNoTable   == S("<div>Memory: 1024 MB for submissions</div><div>Stack: 8 MB</div>")
PageLowerCase == S("<table><tr><td>memory limit: 512 mb</td></tr></table>")
PageJapanese  == S("<th>") \o JaLabel \o S("</th><td>512 MB</td>")
PageEmpty     == <<>>

Pages == {PageNoLimit, PageLabeled, PageTable, PageNoTable, PageLowerCase, PageJapanese, PageEmpty}

---------------------------------------------------------------------------
(* The coordinator                                                         *)

MaxCalls == 2      \* coordinator calls on one session
MaxFetches == 2    \* fetches the retried operation makes through session.get

NoErr == [kind |-> "none", id |-> 0]
\* "Exception": an Exception subclass other than AssertionError (network, parse errors);
\* "BaseException": one outside Exception (KeyboardInterrupt, SystemExit)
ErrKinds == {"AssertionError", "Exception", "BaseException"}
Err(kind, id) == [kind |-> kind, id |-> id]
\* the outcomes of the external call number id
Outcomes(id) == {NoErr} \cup {Err(k, id) : k \in ErrKinds}
\* "except Exception" catches it
IsException(e) == e.kind \in {"AssertionError", "Exception"}

NoResult   == [tag |-> "none",   val |-> "none", err |-> NoErr]
Return(v)  == [tag |-> "return", val |-> v,      err |-> NoErr]
Raise(e)   == [tag |-> "raise",  val |-> "none", err |-> e]
EmptyList  == "[]"

Url == "problem"
OtherUrl == "other"

\* memory_section + the insertion into the page text
SectionOpen  == S("<tr><th>Memory Limit</th><td>")
SectionClose == S("</td></tr>")
memory_section(token) == SectionOpen \o token \o SectionClose
CloseTable == S("</table>")
OpenTable  == S("<table>")
has_label(h) == Contains(EnLabel, h) \/ Contains(JaLabel, h)

\* variant: the test for a label already in the text is missing
inject_unguarded(h, token) ==
    IF Contains(CloseTable, h)
    THEN replace_first(h, CloseTable, memory_section(token) \o CloseTable)
    ELSE OpenTable \o memory_section(token) \o CloseTable \o h

\* the guarded insertion of memory_section into the page text
inject(h, token) ==
    IF ~has_label(h)
    THEN IF Contains(CloseTable, h)
         THEN replace_first(h, CloseTable, memory_section(token) \o CloseTable)
         ELSE OpenTable \o memory_section(token) \o CloseTable \o h
    ELSE h

\* variant: the test of parsed_memory_limit is missing
truthy_always(token) == TRUE

\* "if parsed_memory_limit:"
truthy(token) == token # NotFound /\ token # <<>>

\* whether the recovery re-invokes the wrapped operation on page text h:
\* graceful mode whenever a token was found, strict mode only after an injection
robust_retries(h)  == truthy(parse_memory_limit_from_html(h))
patched_retries(h) == truthy(patched_parse_memory_limit_from_html(h)) /\ ~has_label(h)

\* session.get(url) when get is the given stack of mock_get closures:
\* the text a closure serves, or Live when the call reaches the real get
Live == <<-2>>

\* variant: mock_get answers every url with the prepared text
serves_any_url(closure, url) == TRUE

\* "if url == self._original.get_url()" in a mock_get closure
serves(closure, url) == url = closure.url

RECURSIVE mock_get(_, _)
mock_get(stack, url) ==
    IF stack = <<>> THEN Live
    ELSE LET top == stack[Len(stack)]
         IN  IF serves(top, url) THEN top.html
             ELSE mock_get(SubSeq(stack, 1, Len(stack) - 1), url)

\* variant: the recovery also runs after a successful first invocation
first_attempt_always_recover(e, recovery) ==
    IF e = NoErr \/ e.kind = "AssertionError" THEN [pc |-> recovery, result |-> NoResult]
    ELSE [pc |-> "done", result |-> Raise(e)]

\* variant: "except Exception" instead of "except AssertionError"
first_attempt_any_exception(e, recovery) ==
    IF e = NoErr THEN [pc |-> "done", result |-> Return("op1")]
    ELSE IF IsException(e) THEN [pc |-> recovery, result |-> NoResult]
    ELSE [pc |-> "done", result |-> Raise(e)]

\* variant: a bare "except:" instead of "except AssertionError"
first_attempt_bare_except(e, recovery) ==
    IF e = NoErr THEN [pc |-> "done", result |-> Return("op1")]
    ELSE [pc |-> recovery, result |-> NoResult]

\* "try: return original(...)  except AssertionError": where the first invocation's
\* outcome e leads, recovery being the position that starts the recovery
first_attempt(e, recovery) ==
    IF e = NoErr THEN [pc |-> "done", result |-> Return("op1")]
    ELSE IF e.kind = "AssertionError" THEN [pc |-> recovery, result |-> NoResult]
    ELSE [pc |-> "done", result |-> Raise(e)]

\* the recovery's page fetch inside "try: ... except Exception: return []"
after_fetch(e) ==
    IF e = NoErr THEN [pc |-> "extract", result |-> NoResult]
    ELSE IF IsException(e) THEN [pc |-> "done", result |-> Return(EmptyList)]
    ELSE [pc |-> "done", result |-> Raise(e)]

\* variant: no "except Exception" around the retried download
after_retry_propagate(e) ==
    IF e = NoErr THEN Return("op2") ELSE Raise(e)

\* the retried download inside "try: ... except Exception: return []"
after_retry(e) ==
    IF e = NoErr THEN Return("op2")
    ELSE IF IsException(e) THEN Return(EmptyList)
    ELSE Raise(e)

\* variant: no "finally" clause
restore_forget(saved, current) == current

\* "finally: session.get = original_get"
restore(saved, current) == saved

\* variant: "raise patch_error" instead of "raise e"
patched_after_retry_new_error(e, first) ==
    IF e = NoErr THEN Return("op2") ELSE Raise(e)

\* the retried original_from_html inside "try: ... except Exception as patch_error: raise e"
patched_after_retry(e, first) ==
    IF e = NoErr THEN Return("op2")
    ELSE IF IsException(e) THEN Raise(first)
    ELSE Raise(e)

\* AtCoderProblemData._from_html after "import atcoder_memory_limit_patch" with the
\* library installed: the upstream parser under one patched_from_html
Upstream == [library |-> "present", layers |-> 0]
Imported == [library |-> "present", layers |-> 1]

\* apply_atcoder_memory_limit_patch on the attribute's current value: ImportError and a
\* missing attribute leave it alone, otherwise the current function is wrapped once more
apply_patch(current) ==
    IF current.library # "present" THEN current
    ELSE [current EXCEPT !.layers = current.layers + 1]

\* objects: identity, class, and for a wrapper the object in _original
Object(id, class) == [id |-> id, class |-> class, original |-> <<>>]
AtCoder     == Object(1, "AtCoderProblem")
AtCoderSub  == Object(2, "AtCoderProblemSubclass")
BaseProblem == Object(3, "Problem")
MockAtCoder == Object(4, "MockAtCoderProblem")
NoneObject  == Object(5, "NoneType")

\* the class a class derives from
Base(class) ==
    CASE class = "AtCoderProblemSubclass" -> "AtCoderProblem"
      [] class = "AtCoderProblem" -> "Problem"
      [] OTHER -> "object"

RECURSIVE issubclass(_, _)
issubclass(class, classinfo) ==
    IF class = classinfo THEN TRUE
    ELSE IF class = "object" THEN FALSE
    ELSE issubclass(Base(class), classinfo)

\* the classes that define download_sample_cases and download_system_cases
HasDownloads == {"AtCoderProblem", "AtCoderProblemSubclass", "Problem", "MockAtCoderProblem",
                 "RobustAtCoderProblem"}

\* variant: any object with the download methods counts
isinstance_duck(obj, classinfo) == obj.class \in HasDownloads

isinstance(obj, classinfo) == issubclass(obj.class, classinfo)

\* RobustAtCoderProblem.__init__
NewId == 0
RobustAtCoderProblem(original_problem) ==
    [id |-> NewId, class |-> "RobustAtCoderProblem", original |-> <<original_problem>>]

wrap_atcoder_problem(obj) ==
    IF isinstance(obj, "AtCoderProblem") THEN RobustAtCoderProblem(obj) ELSE obj

Problems == {AtCoder, AtCoderSub, BaseProblem, MockAtCoder, NoneObject,
             RobustAtCoderProblem(AtCoder)}

Init ==
    /\ mode = "graceful"
    /\ pc = "idle"
    /\ case_type = "sample"
    /\ hasSession = TRUE
    /\ html = <<>>
    /\ served = <<>>
    /\ parsed = NotFound
    /\ sessionGet = <<>>
    /\ original_get = <<>>
    /\ opCalls = 0
    /\ opErr = <<>>
    /\ fetchErr = NoErr
    /\ pageFetches = 0
    /\ exCalls = 0
    /\ injections = 0
    /\ mockHits = 0
    /\ liveHits = 0
    /\ result = NoResult
    /\ calls = 0
    /\ gets = <<>>
    /\ problem = AtCoder
    /\ wrapped = wrap_atcoder_problem(AtCoder)
    /\ threads = <<>>
    /\ lateGets = <<>>
    /\ from_html = Imported
    /\ frames = <<>>
    /\ ret = <<>>

\* a fresh call: the per-call bookkeeping starts over, the session keeps its get
Fresh ==
    /\ served' = <<>>
    /\ parsed' = NotFound
    /\ original_get' = <<>>
    /\ opCalls' = 0
    /\ opErr' = <<>>
    /\ fetchErr' = NoErr
    /\ pageFetches' = 0
    /\ exCalls' = 0
    /\ injections' = 0
    /\ mockHits' = 0
    /\ liveHits' = 0
    /\ result' = NoResult
    /\ gets' = <<>>
    /\ UNCHANGED <<sessionGet, problem, wrapped, threads, lateGets, from_html, frames, ret>>

\* a caller wraps a problem object
wrap ==
    /\ pc \in {"idle", "done"}
    /\ \E obj \in Problems :
        /\ problem' = obj
        /\ wrapped' = wrap_atcoder_problem(obj)
    /\ UNCHANGED <<mode, pc, case_type, hasSession, html, served, parsed, sessionGet,
                   original_get, opCalls, opErr, fetchErr, pageFetches, exCalls, injections,
                   mockHits, liveHits, result, calls, gets, threads, lateGets, from_html,
                   frames, ret>>

\* a caller invokes download_sample_cases / download_system_cases of the unwrapped mock
CallDirect ==
    /\ pc \in {"idle", "done"}
    /\ wrapped = MockAtCoder
    /\ calls < MaxCalls
    /\ calls' = calls + 1
    /\ mode' = "direct"
    /\ \E ct \in {"sample", "system"}, s \in BOOLEAN :
        /\ case_type' = ct
        /\ hasSession' = s
    /\ html' = <<>>
    /\ pc' = "first"
    /\ Fresh

\* MockAtCoderProblem.download_sample_cases / download_system_cases
mock_download ==
    /\ mode = "direct" /\ pc = "first"
    /\ \E should_fail \in BOOLEAN :
        LET e == IF should_fail THEN Err("AssertionError", 1) ELSE NoErr
        IN  /\ opCalls' = opCalls + 1
            /\ opErr' = Append(opErr, e)
            /\ result' = IF should_fail THEN Raise(e) ELSE Return(EmptyList)
    /\ pc' = "done"
    /\ UNCHANGED <<mode, case_type, hasSession, html, served, parsed, sessionGet, original_get,
                   fetchErr, pageFetches, exCalls, injections, mockHits, liveHits, calls, gets,
                   problem, wrapped, threads, lateGets, from_html, frames, ret>>

\* a caller invokes RobustAtCoderProblem.download_sample_cases / download_system_cases;
\* the page is one of Pages or the text the previous recovery prepared
CallRobust ==
    /\ pc \in {"idle", "done"}
    /\ wrapped.class = "RobustAtCoderProblem"
    /\ calls < MaxCalls
    /\ calls' = calls + 1
    /\ mode' = "graceful"
    /\ \E ct \in {"sample", "system"}, s \in BOOLEAN, page \in Pages \cup {served} :
        /\ case_type' = ct
        /\ hasSession' = s
        /\ html' = page
    /\ pc' = "first"
    /\ Fresh

\* the library invokes the patched AtCoderProblemData._from_html(html, ...), also from
\* inside a retried download, on the text the graceful recovery prepared
CallPatched ==
    /\ pc \in {"idle", "done"}
    /\ calls < MaxCalls
    /\ calls' = calls + 1
    /\ mode' = "strict"
    /\ case_type' = "html"
    /\ hasSession' = FALSE
    /\ \E page \in Pages \cup {served} : html' = page
    /\ pc' = "first"
    /\ Fresh

\* download_sample_cases / download_system_cases: try the original, except AssertionError
download_cases ==
    /\ mode = "graceful" /\ pc = "first"
    /\ \E e \in Outcomes(1) :
        /\ opCalls' = opCalls + 1
        /\ opErr' = Append(opErr, e)
        /\ pc' = first_attempt(e, "fetch").pc
        /\ result' = first_attempt(e, "fetch").result
    /\ UNCHANGED <<mode, case_type, hasSession, html, served, parsed, sessionGet, original_get,
                   fetchErr, pageFetches, exCalls, injections, mockHits, liveHits, calls,
                   gets, problem, wrapped, threads, lateGets, from_html, frames,
                   ret>>

\* _download_with_robust_parsing: session.get(url), raise_for_status, resp.text
robust_fetch ==
    /\ mode = "graceful" /\ pc = "fetch"
    /\ IF ~hasSession
       THEN \* None.get: AttributeError, caught by "except Exception"
            /\ fetchErr' = Err("Exception", 2)
            /\ pageFetches' = pageFetches
            /\ pc' = after_fetch(Err("Exception", 2)).pc
            /\ result' = after_fetch(Err("Exception", 2)).result
       ELSE \E e \in Outcomes(2) :
            /\ fetchErr' = e
            /\ pageFetches' = pageFetches + 1
            /\ pc' = after_fetch(e).pc
            /\ result' = after_fetch(e).result
    /\ UNCHANGED <<mode, case_type, hasSession, html, served, parsed, sessionGet, original_get,
                   opCalls, opErr, exCalls, injections, mockHits, liveHits, calls,
                   gets, problem, wrapped, threads, lateGets, from_html, frames,
                   ret>>

\* _download_with_robust_parsing: the extractor, the guard and the injection
robust_extract ==
    /\ mode = "graceful" /\ pc = "extract"
    /\ exCalls' = exCalls + 1
    /\ parsed' = parse_memory_limit_from_html(html)
    /\ IF truthy(parsed')
       THEN /\ served' = inject(html, parsed')
            /\ injections' = IF served' # html THEN injections + 1 ELSE injections
            /\ result' = result
            /\ pc' = "save"
       ELSE /\ served' = served
            /\ injections' = injections
            /\ result' = Return(EmptyList)
            /\ pc' = "done"
    /\ UNCHANGED <<mode, case_type, hasSession, html, sessionGet, original_get, opCalls, opErr,
                   fetchErr, pageFetches, mockHits, liveHits, calls, gets,
                   problem, wrapped, threads, lateGets, from_html, frames, ret>>

\* original_get = session.get
robust_save ==
    /\ mode = "graceful" /\ pc = "save"
    /\ original_get' = sessionGet
    /\ pc' = "substitute"
    /\ UNCHANGED <<mode, case_type, hasSession, html, served, parsed, sessionGet, opCalls, opErr,
                   fetchErr, pageFetches, exCalls, injections, mockHits, liveHits, result, calls,
                   gets, problem, wrapped, threads, lateGets, from_html, frames,
                   ret>>

\* session.get = mock_get
robust_substitute ==
    /\ mode = "graceful" /\ pc = "substitute"
    /\ sessionGet' = Append(original_get, [url |-> Url, html |-> served])
    /\ pc' = "retry"
    /\ UNCHANGED <<mode, case_type, hasSession, html, served, parsed, original_get, opCalls,
                   opErr, fetchErr, pageFetches, exCalls, injections, mockHits, liveHits,
                   result, calls, gets, problem, wrapped, threads, lateGets,
                   from_html, frames, ret>>

\* "return original_get(url, **kwargs)": the call that reaches the real get
forward(url, kwargs) == [url |-> url, kwargs |-> kwargs]
Kwargs == {"none", "timeout"}

\* the retried operation calls session.get(url, **kwargs)
retry_get ==
    /\ mode = "graceful" /\ pc = "retry"
    /\ mockHits + liveHits < MaxFetches
    /\ \E url \in {Url, OtherUrl}, kwargs \in Kwargs :
        IF mock_get(sessionGet, url) = Live
        THEN /\ liveHits' = liveHits + 1 /\ mockHits' = mockHits
             /\ gets' = Append(gets, [url |-> url, kwargs |-> kwargs, answer |-> Live,
                                      forwarded |-> <<forward(url, kwargs)>>])
        ELSE /\ mockHits' = mockHits + 1 /\ liveHits' = liveHits
             /\ gets' = Append(gets, [url |-> url, kwargs |-> kwargs,
                                      answer |-> mock_get(sessionGet, url), forwarded |-> <<>>])
    /\ UNCHANGED <<mode, pc, case_type, hasSession, html, served, parsed, sessionGet,
                   original_get, opCalls, opErr, fetchErr, pageFetches, exCalls, injections,
                   result, calls, problem, wrapped, threads, lateGets, from_html,
                   frames, ret>>

\* the retried download_sample_cases / download_system_cases returns or raises
robust_retry ==
    /\ mode = "graceful" /\ pc = "retry"
    /\ \E e \in Outcomes(3) :
        /\ opCalls' = opCalls + 1
        /\ opErr' = Append(opErr, e)
    /\ pc' = "finally"
    /\ UNCHANGED <<mode, case_type, hasSession, html, served, parsed, sessionGet, original_get,
                   fetchErr, pageFetches, exCalls, injections, mockHits, liveHits, result, calls,
                   gets, problem, wrapped, threads, lateGets, from_html, frames,
                   ret>>

\* finally: session.get = original_get; then the return, or "except Exception: return []"
robust_restore ==
    /\ mode = "graceful" /\ pc = "finally"
    /\ sessionGet' = restore(original_get, sessionGet)
    /\ result' = after_retry(opErr[2])
    /\ pc' = "done"
    /\ UNCHANGED <<mode, case_type, hasSession, html, served, parsed, original_get, opCalls,
                   opErr, fetchErr, pageFetches, exCalls, injections, mockHits, liveHits, calls,
                   gets, problem, wrapped, threads, lateGets, from_html, frames,
                   ret>>

\* patched_from_html: try original_from_html, except AssertionError as e
patched_from_html ==
    /\ mode = "strict" /\ pc = "first"
    /\ \E e \in Outcomes(1) :
        /\ opCalls' = opCalls + 1
        /\ opErr' = Append(opErr, e)
        /\ pc' = first_attempt(e, "extract").pc
        /\ result' = first_attempt(e, "extract").result
    /\ UNCHANGED <<mode, case_type, hasSession, html, served, parsed, sessionGet, original_get,
                   fetchErr, pageFetches, exCalls, injections, mockHits, liveHits, calls,
                   gets, problem, wrapped, threads, lateGets, from_html, frames,
                   ret>>

\* patched_from_html: the extractor, the guard and the injection; otherwise the bare
\* raise, caught by "except Exception as patch_error: raise e"
patched_extract ==
    /\ mode = "strict" /\ pc = "extract"
    /\ exCalls' = exCalls + 1
    /\ parsed' = patched_parse_memory_limit_from_html(html)
    /\ IF truthy(parsed') /\ ~has_label(html)
       THEN /\ served' = inject(html, parsed')
            /\ injections' = injections + 1
            /\ result' = result
            /\ pc' = "retry"
       ELSE /\ served' = served
            /\ injections' = injections
            /\ result' = Raise(opErr[1])
            /\ pc' = "done"
    /\ UNCHANGED <<mode, case_type, hasSession, html, sessionGet, original_get, opCalls, opErr,
                   fetchErr, pageFetches, mockHits, liveHits, calls, gets,
                   problem, wrapped, threads, lateGets, from_html, frames, ret>>

\* patched_from_html: original_from_html on the modified html; "raise e" on any Exception
patched_retry ==
    /\ mode = "strict" /\ pc = "retry"
    /\ \E e \in Outcomes(3) :
        /\ opCalls' = opCalls + 1
        /\ opErr' = Append(opErr, e)
        /\ result' = patched_after_retry(e, opErr[1])
    /\ pc' = "done"
    /\ UNCHANGED <<mode, case_type, hasSession, html, served, parsed, sessionGet, original_get,
                   fetchErr, pageFetches, exCalls, injections, mockHits, liveHits, calls,
                   gets, problem, wrapped, threads, lateGets, from_html, frames,
                   ret>>

Next ==
    \/ wrap
    \/ CallDirect
    \/ mock_download
    \/ CallRobust
    \/ CallPatched
    \/ download_cases
    \/ robust_fetch
    \/ robust_extract
    \/ robust_save
    \/ robust_substitute
    \/ retry_get
    \/ robust_retry
    \/ robust_restore
    \/ patched_from_html
    \/ patched_extract
    \/ patched_retry

Spec == Init /\ [][Next]_vars

---------------------------------------------------------------------------
(* The extractor on its own                                                *)

InitExtract ==
    /\ mode = "extract"
    /\ pc = "input"
    /\ case_type = "html"
    /\ hasSession = FALSE
    /\ html \in Texts
    /\ served = <<>>
    /\ parsed = NotFound
    /\ sessionGet = <<>>
    /\ original_get = <<>>
    /\ opCalls = 0
    /\ opErr = <<>>
    /\ fetchErr = NoErr
    /\ pageFetches = 0
    /\ exCalls = 0
    /\ injections = 0
    /\ mockHits = 0
    /\ liveHits = 0
    /\ result = NoResult
    /\ calls = 0
    /\ gets = <<>>
    /\ problem = AtCoder
    /\ wrapped = wrap_atcoder_problem(AtCoder)
    /\ threads = <<>>
    /\ lateGets = <<>>
    /\ from_html = Imported
    /\ frames = <<>>
    /\ ret = <<>>

ExtractRobust ==
    /\ mode = "extract" /\ pc = "input"
    /\ parsed' = parse_memory_limit_from_html(html)
    /\ exCalls' = exCalls + 1
    /\ pc' = "robust"
    /\ UNCHANGED <<mode, case_type, hasSession, html, served, sessionGet, original_get, opCalls,
                   opErr, fetchErr, pageFetches, injections, mockHits, liveHits, result, calls,
                   gets, problem, wrapped, threads, lateGets, from_html, frames,
                   ret>>

ExtractPatched ==
    /\ mode = "extract" /\ pc = "input"
    /\ parsed' = patched_parse_memory_limit_from_html(html)
    /\ exCalls' = exCalls + 1
    /\ pc' = "patched"
    /\ UNCHANGED <<mode, case_type, hasSession, html, served, sessionGet, original_get, opCalls,
                   opErr, fetchErr, pageFetches, injections, mockHits, liveHits, result, calls,
                   gets, problem, wrapped, threads, lateGets, from_html, frames,
                   ret>>

NextExtract == ExtractRobust \/ ExtractPatched

SpecExtract == InitExtract /\ [][NextExtract]_vars

---------------------------------------------------------------------------
(* Two graceful recoveries on one shared session                           *)

Threads == {"A", "B"}
ConcurrentPages == {PageTable, PageNoTable}

IdleThread == [pc |-> "fetch", url |-> Url, html |-> <<>>, served |-> <<>>,
               original_get |-> <<>>, answer |-> <<>>, err |-> NoErr, result |-> NoResult]

InitConcurrent ==
    /\ mode = "concurrent"
    /\ pc = "idle"
    /\ case_type = "sample"
    /\ hasSession = TRUE
    /\ html = <<>>
    /\ served = <<>>
    /\ parsed = NotFound
    /\ sessionGet = <<>>
    /\ original_get = <<>>
    /\ opCalls = 0
    /\ opErr = <<>>
    /\ fetchErr = NoErr
    /\ pageFetches = 0
    /\ exCalls = 0
    /\ injections = 0
    /\ mockHits = 0
    /\ liveHits = 0
    /\ result = NoResult
    /\ calls = 0
    /\ gets = <<>>
    /\ problem = AtCoder
    /\ wrapped = wrap_atcoder_problem(AtCoder)
    /\ threads = [t \in Threads |-> IdleThread]
    /\ lateGets = <<>>
    /\ from_html = Imported
    /\ frames = <<>>
    /\ ret = <<>>

\* what the single-call variables do while the threads run
SingleCallUnchanged ==
    UNCHANGED <<mode, pc, case_type, hasSession, html, served, parsed, original_get, opCalls,
                opErr, fetchErr, pageFetches, exCalls, injections, mockHits, liveHits, result,
                calls, gets, problem, wrapped, from_html, frames, ret>>

\* thread t: session.get(self._original.get_url()), resp.text
conc_fetch(t) ==
    /\ mode = "concurrent" /\ threads[t].pc = "fetch"
    /\ \E url \in {Url, OtherUrl}, page \in ConcurrentPages :
        threads' = [threads EXCEPT ![t].pc = "extract", ![t].url = url,
                       ![t].html = IF mock_get(sessionGet, url) = Live THEN page
                                   ELSE mock_get(sessionGet, url)]
    /\ UNCHANGED <<sessionGet, lateGets>>
    /\ SingleCallUnchanged

\* thread t: the extractor, the guard and the injection
conc_extract(t) ==
    /\ mode = "concurrent" /\ threads[t].pc = "extract"
    /\ LET token == parse_memory_limit_from_html(threads[t].html)
       IN  IF truthy(token)
           THEN threads' = [threads EXCEPT ![t].pc = "save",
                                           ![t].served = inject(threads[t].html, token)]
           ELSE threads' = [threads EXCEPT ![t].pc = "done",
                                           ![t].result = Return(EmptyList)]
    /\ UNCHANGED <<sessionGet, lateGets>>
    /\ SingleCallUnchanged

\* thread t: original_get = session.get
conc_save(t) ==
    /\ mode = "concurrent" /\ threads[t].pc = "save"
    /\ threads' = [threads EXCEPT ![t].pc = "substitute", ![t].original_get = sessionGet]
    /\ UNCHANGED <<sessionGet, lateGets>>
    /\ SingleCallUnchanged

\* thread t: session.get = mock_get
conc_substitute(t) ==
    /\ mode = "concurrent" /\ threads[t].pc = "substitute"
    /\ sessionGet' = Append(threads[t].original_get,
                            [url |-> threads[t].url, html |-> threads[t].served])
    /\ threads' = [threads EXCEPT ![t].pc = "retry"]
    /\ UNCHANGED lateGets
    /\ SingleCallUnchanged

\* thread t: the retried download fetches the problem page and returns or raises
conc_retry(t) ==
    /\ mode = "concurrent" /\ threads[t].pc = "retry"
    /\ \E e \in Outcomes(3) :
        threads' = [threads EXCEPT ![t].pc = "finally", ![t].err = e,
                                   ![t].answer = mock_get(sessionGet, threads[t].url)]
    /\ UNCHANGED <<sessionGet, lateGets>>
    /\ SingleCallUnchanged

\* thread t: finally: session.get = original_get
conc_restore(t) ==
    /\ mode = "concurrent" /\ threads[t].pc = "finally"
    /\ sessionGet' = restore(threads[t].original_get, sessionGet)
    /\ threads' = [threads EXCEPT ![t].pc = "done", ![t].result = after_retry(threads[t].err)]
    /\ UNCHANGED lateGets
    /\ SingleCallUnchanged

\* after every recovery has returned: some caller fetches through the session
later_get ==
    /\ mode = "concurrent"
    /\ \A t \in Threads : threads[t].pc = "done"
    /\ Len(lateGets) < MaxFetches
    /\ \E url \in {Url, OtherUrl} :
        lateGets' = Append(lateGets, [url |-> url, answer |-> mock_get(sessionGet, url)])
    /\ UNCHANGED <<sessionGet, threads>>
    /\ SingleCallUnchanged

NextConcurrent ==
    \/ \E t \in Threads : conc_fetch(t)
    \/ \E t \in Threads : conc_extract(t)
    \/ \E t \in Threads : conc_save(t)
    \/ \E t \in Threads : conc_substitute(t)
    \/ \E t \in Threads : conc_retry(t)
    \/ \E t \in Threads : conc_restore(t)
    \/ later_get

SpecConcurrent == InitConcurrent /\ [][NextConcurrent]_vars

---------------------------------------------------------------------------
(* Applying the patch again                                                *)

MaxLayers == 2     \* patched_from_html closures around the upstream parser

\* the attribute is absent (getattr gives None), or the library cannot be imported
NoMethod  == [library |-> "no_from_html", layers |-> 0]
NoLibrary == [library |-> "absent", layers |-> 0]

InitPatch ==
    /\ mode = "patch"
    /\ pc = "idle"
    /\ case_type = "html"
    /\ hasSession = FALSE
    /\ html = <<>>
    /\ served = <<>>
    /\ parsed = NotFound
    /\ sessionGet = <<>>
    /\ original_get = <<>>
    /\ opCalls = 0
    /\ opErr = <<>>
    /\ fetchErr = NoErr
    /\ pageFetches = 0
    /\ exCalls = 0
    /\ injections = 0
    /\ mockHits = 0
    /\ liveHits = 0
    /\ result = NoResult
    /\ calls = 0
    /\ gets = <<>>
    /\ problem = AtCoder
    /\ wrapped = wrap_atcoder_problem(AtCoder)
    /\ threads = <<>>
    /\ lateGets = <<>>
    /\ from_html \in {apply_patch(Upstream), apply_patch(NoMethod), apply_patch(NoLibrary)}
    /\ frames = <<>>
    /\ ret = <<>>

\* what the variables outside a _from_html call do
OutsidePatchUnchanged ==
    UNCHANGED <<mode, case_type, hasSession, served, parsed, sessionGet, original_get,
                fetchErr, pageFetches, mockHits, liveHits, gets, problem, wrapped, threads,
                lateGets>>

Frame(layer, h) == [layer |-> layer, pc |-> "enter", html |-> h, e |-> NoErr]
Top == frames[Len(frames)]
Pop == SubSeq(frames, 1, Len(frames) - 1)
SetTop(f) == [frames EXCEPT ![Len(frames)] = f]
\* the running call's outcome, once its outermost frame has finished
Finished(stk, e) ==
    IF stk # <<>> THEN [pc |-> "run", result |-> NoResult]
    ELSE [pc |-> "done", result |-> IF e = NoErr THEN Return("parsed") ELSE Raise(e)]

\* a caller invokes apply_atcoder_memory_limit_patch() again
apply_atcoder_memory_limit_patch ==
    /\ mode = "patch" /\ pc \in {"idle", "done"}
    /\ from_html.layers < MaxLayers
    /\ from_html' = apply_patch(from_html)
    /\ UNCHANGED <<pc, html, opCalls, opErr, exCalls, injections, result, calls, frames, ret>>
    /\ OutsidePatchUnchanged

\* the library calls AtCoderProblemData._from_html(html, ...)
CallFromHtml ==
    /\ mode = "patch" /\ pc \in {"idle", "done"}
    /\ from_html.library = "present"
    /\ calls < MaxCalls
    /\ calls' = calls + 1
    /\ \E page \in Pages :
        /\ html' = page
        /\ frames' = <<Frame(from_html.layers, page)>>
    /\ ret' = <<>>
    /\ pc' = "run"
    /\ opCalls' = 0
    /\ opErr' = <<>>
    /\ exCalls' = 0
    /\ injections' = 0
    /\ result' = NoResult
    /\ UNCHANGED from_html
    /\ OutsidePatchUnchanged

\* the upstream parser runs on the html it was given and returns or raises
upstream_from_html ==
    /\ mode = "patch" /\ pc = "run" /\ ret = <<>>
    /\ Top.layer = 0 /\ Top.pc = "enter"
    /\ \E e \in Outcomes(opCalls + 1) :
        /\ opErr' = Append(opErr, e)
        /\ ret' = <<e>>
        /\ pc' = Finished(Pop, e).pc
        /\ result' = Finished(Pop, e).result
    /\ opCalls' = opCalls + 1
    /\ frames' = Pop
    /\ UNCHANGED <<html, exCalls, injections, calls, from_html>>
    /\ OutsidePatchUnchanged

\* patched_from_html: "try: return original_from_html(html, ...)"
patch_enter ==
    /\ mode = "patch" /\ pc = "run" /\ ret = <<>>
    /\ Top.layer > 0 /\ Top.pc = "enter"
    /\ frames' = Append(SetTop([Top EXCEPT !.pc = "first"]), Frame(Top.layer - 1, Top.html))
    /\ UNCHANGED <<pc, html, opCalls, opErr, exCalls, injections, result, calls, from_html, ret>>
    /\ OutsidePatchUnchanged

\* patched_from_html: the first original_from_html returned, or "except AssertionError as e"
patch_first ==
    /\ mode = "patch" /\ pc = "run" /\ ret # <<>>
    /\ Top.pc = "first"
    /\ IF first_attempt(ret[1], "extract").pc = "extract"
       THEN /\ frames' = SetTop([Top EXCEPT !.pc = "extract", !.e = ret[1]])
            /\ ret' = <<>>
            /\ UNCHANGED <<pc, result>>
       ELSE /\ frames' = Pop
            /\ ret' = ret
            /\ pc' = Finished(Pop, ret[1]).pc
            /\ result' = Finished(Pop, ret[1]).result
    /\ UNCHANGED <<html, opCalls, opErr, exCalls, injections, calls, from_html>>
    /\ OutsidePatchUnchanged

\* patched_from_html: the extractor, the guard, the injection and the second
\* original_from_html; otherwise the bare raise, turned into "raise e"
patch_extract ==
    /\ mode = "patch" /\ pc = "run" /\ ret = <<>>
    /\ Top.pc = "extract"
    /\ exCalls' = exCalls + 1
    /\ IF patched_retries(Top.html)
       THEN LET modified == inject(Top.html, patched_parse_memory_limit_from_html(Top.html))
            IN  /\ frames' = Append(SetTop([Top EXCEPT !.pc = "retry", !.html = modified]),
                                    Frame(Top.layer - 1, modified))
                /\ injections' = injections + 1
                /\ ret' = <<>>
                /\ UNCHANGED <<pc, result>>
       ELSE /\ frames' = Pop
            /\ injections' = injections
            /\ ret' = <<Top.e>>
            /\ pc' = Finished(Pop, Top.e).pc
            /\ result' = Finished(Pop, Top.e).result
    /\ UNCHANGED <<html, opCalls, opErr, calls, from_html>>
    /\ OutsidePatchUnchanged

\* patched_from_html: the second original_from_html returned, or
\* "except Exception as patch_error: raise e"
patch_retry ==
    /\ mode = "patch" /\ pc = "run" /\ ret # <<>>
    /\ Top.pc = "retry"
    /\ LET out == patched_after_retry(ret[1], Top.e).err
       IN  /\ ret' = <<out>>
           /\ pc' = Finished(Pop, out).pc
           /\ result' = Finished(Pop, out).result
    /\ frames' = Pop
    /\ UNCHANGED <<html, opCalls, opErr, exCalls, injections, calls, from_html>>
    /\ OutsidePatchUnchanged

NextPatch ==
    \/ apply_atcoder_memory_limit_patch
    \/ CallFromHtml
    \/ upstream_from_html
    \/ patch_enter
    \/ patch_first
    \/ patch_extract
    \/ patch_retry

SpecPatch == InitPatch /\ [][NextPatch]_vars

---------------------------------------------------------------------------
(* Properties                                                              *)

Coordinating == mode \in {"graceful", "strict"}
Extracted    == mode = "extract" /\ pc \in {"robust", "patched"}
FirstOutcome == opErr[1]
Retried      == Len(opErr) = 2
RetryOutcome == opErr[2]
OriginalFailure == Err("AssertionError", 1)

\* s without its leading and trailing whitespace
Trimmed(s) ==
    LET keep == {i \in 1..Len(s) : ~IsSpace(s[i])}
    IN  IF keep = {} THEN <<>>
        ELSE SubSeq(s, CHOOSE i \in keep : \A j \in keep : i <= j,
                       CHOOSE i \in keep : \A j \in keep : j <= i)

\* C1: when the first invocation succeeds the call is over with exactly that result:
\* one invocation, no page fetch, no extractor call, no injection, session.get untouched.
C1_FastPath ==
    (Coordinating /\ opErr # <<>> /\ FirstOutcome = NoErr) =>
        /\ pc = "done"
        /\ result = Return("op1")
        /\ opCalls = 1
        /\ pageFetches = 0
        /\ exCalls = 0
        /\ injections = 0
        /\ served = <<>>
        /\ sessionGet = <<>>
        /\ mockHits + liveHits = 0

C1_Witness ==
    /\ mode = "graceful" /\ pc = "done" /\ calls = 2
    /\ opErr = <<NoErr>> /\ result = Return("op1")

\* C2: a first failure other than AssertionError is the outcome of the call, unchanged,
\* and nothing of the recovery happens.
C2_OtherFailurePropagates ==
    (Coordinating /\ opErr # <<>> /\ FirstOutcome.kind \in {"Exception", "BaseException"}) =>
        /\ pc = "done"
        /\ result = Raise(FirstOutcome)
        /\ opCalls = 1
        /\ pageFetches = 0
        /\ exCalls = 0
        /\ injections = 0
        /\ sessionGet = <<>>

C2_Witness ==
    /\ mode = "strict" /\ pc = "done"
    /\ opErr = <<Err("Exception", 1)>> /\ result = Raise(Err("Exception", 1))

\* C3: a failure of the recovery's page fetch or of the retried operation that is not an
\* AssertionError ends the call as that same failure.
C3_UnrelatedNeverCaught ==
    (Coordinating /\ pc = "done") =>
        /\ (hasSession /\ fetchErr.kind \in {"Exception", "BaseException"})
               => result = Raise(fetchErr)
        /\ (Retried /\ RetryOutcome.kind \in {"Exception", "BaseException"})
               => result = Raise(RetryOutcome)

\* C4: the wrapped operation is invoked at most twice, and a second time only after the
\* first invocation failed with AssertionError.
C4_AtMostOneRetry ==
    Coordinating =>
        /\ opCalls <= 2
        /\ opCalls = Len(opErr)
        /\ opCalls = 2 => FirstOutcome.kind = "AssertionError"

C4_Witness ==
    /\ Coordinating /\ opCalls = 2 /\ FirstOutcome = OriginalFailure

\* C5: graceful mode, after a first AssertionError: the retried operation's result if the
\* retry succeeds; the empty list if the extractor found nothing or the retry fails with
\* AssertionError again; no exception in these cases.
C5_GracefulOutcome ==
    (mode = "graceful" /\ pc = "done" /\ opErr # <<>> /\ FirstOutcome.kind = "AssertionError") =>
        /\ (Retried /\ RetryOutcome = NoErr) => result = Return("op2")
        /\ (exCalls = 1 /\ parsed = NotFound) => result = Return(EmptyList)
        /\ (Retried /\ RetryOutcome.kind = "AssertionError") => result = Return(EmptyList)

C5_Witness ==
    /\ mode = "graceful" /\ pc = "done"
    /\ Retried /\ RetryOutcome = Err("AssertionError", 3)
    /\ result = Return(EmptyList)

\* C6: strict mode, after a first AssertionError: unless the retry succeeds, the call raises
\* the first invocation's own AssertionError (extractor found nothing, label already
\* present, or the retried parse raised an Exception).
C6_StrictReraisesOriginal ==
    (mode = "strict" /\ pc = "done" /\ opErr # <<>> /\ FirstOutcome.kind = "AssertionError") =>
        /\ (~Retried \/ IsException(RetryOutcome)) => result = Raise(OriginalFailure)
        /\ (exCalls = 1 /\ ~truthy(parsed)) => ~Retried
        /\ has_label(html) => ~Retried

C6_Witness ==
    /\ mode = "strict" /\ pc = "done"
    /\ Retried /\ RetryOutcome = Err("Exception", 3)
    /\ result = Raise(OriginalFailure)

\* C7: when the extractor returns NotFound nothing is injected, session.get is not
\* substituted, the operation is not re-invoked, and the outcome is the empty list
\* (graceful) or the original failure (strict).
C7_NeverFabricates ==
    (Coordinating /\ exCalls = 1 /\ parsed = NotFound) =>
        /\ pc = "done"
        /\ injections = 0
        /\ served = <<>>
        /\ sessionGet = <<>>
        /\ opCalls = 1
        /\ mode = "graceful" => result = Return(EmptyList)
        /\ mode = "strict" => result = Raise(OriginalFailure)

C7_Witness ==
    /\ mode = "graceful" /\ html = PageNoLimit
    /\ exCalls = 1 /\ parsed = NotFound /\ result = Return(EmptyList)

\* C8: graceful mode: once the call has returned, session.get is the function installed
\* before the call; a substitute is installed only from the substitution to the restore
\* around the single retried invocation.
C8_SubstitutionUndone ==
    Coordinating =>
        /\ pc \in {"idle", "done"} => sessionGet = <<>>
        /\ sessionGet # <<>> =>
               /\ mode = "graceful"
               /\ pc \in {"retry", "finally"}
               /\ sessionGet = <<[url |-> Url, html |-> served]>>
               /\ opCalls \in {1, 2}

C8_Witness ==
    /\ mode = "graceful" /\ pc = "done"
    /\ Retried /\ RetryOutcome = Err("Exception", 3)
    /\ sessionGet = <<>>

Token256MB  == S("256 MB")
Token1024MB == S("1024 MB")

\* the six labeled strategies in the order (a) .. (f)
StrategyOrder == <<PatA, PatB, PatC, PatD, PatE, PatF>>
StrategyMatches(k) == re_search(StrategyOrder[k], html) # NoMatch
StrategyCapture(k) == Trimmed(Group(html, re_search(StrategyOrder[k], html), 1))

\* C9: the result is the trimmed first capture of the first strategy, in the order
\* (a) .. (f), that matches anywhere in the text, wherever the matches lie and whatever
\* the value; a labeled "1 TB" is returned.
C9_StrategyPriority ==
    Extracted =>
        /\ LET matching == {k \in 1..6 : StrategyMatches(k)}
           IN  \A k \in matching :
                   (\A j \in matching : k <= j) => parsed = StrategyCapture(k)
        /\ html = PieceB => parsed = PieceL
        /\ html = PieceF \o PieceA => parsed = Token256MB
        /\ html = PieceH \o PieceB => parsed = PieceL

\* strategy (f) matches earlier in the text than strategy (a), and (a) decides
C9_Witness ==
    /\ Extracted /\ html = PieceF \o PieceA /\ parsed = Token256MB
    /\ re_search(PatF, html)[1] < re_search(PatA, html)[1]

\* the canonical cells of the text: <<position, VALUE>> for <th>Memory Limit</th><td>VALUE</td>
CellOpen  == S("<th>Memory Limit</th><td>")
CellClose == S("</td>")
CanonicalCells ==
    {<<p, SubSeq(html, p + Len(CellOpen), find_from(CellClose, html, p + Len(CellOpen)) - 1)>> :
        p \in {q \in 1..Len(html) : /\ ExactAt(CellOpen, 1, html, q)
                                    /\ find_from(CellClose, html, q + Len(CellOpen)) # 0}}

\* occurrences of the English label in any letter case and spacing
LabelPattern == <<Lit("Memory"), Plus("s"), Lit("Limit")>>
LabelStarts == {i \in 1..Len(html) : re_match_at(LabelPattern, html, i) # NoMatch}
LessThan == S("<")
ContainsB(v) == \E i \in 1..Len(v) : Lower(v[i]) = 98

\* C10 as stated: the VALUE of every canonical cell of the text is what the extractor returns.
C10_CanonicalCellAlways ==
    Extracted => \A c \in CanonicalCells : parsed = Trimmed(c[2])

\* C10 amended: the trimmed VALUE of a canonical cell is returned when VALUE contains the
\* letter B and no "<" and the labels occur nowhere else in the text.
C10_CanonicalCellAlone ==
    Extracted =>
        \A c \in CanonicalCells :
            (/\ ContainsB(c[2])
             /\ ~Contains(LessThan, c[2])
             /\ Cardinality(LabelStarts) = 1
             /\ ~Contains(JaLabel, html))
                => parsed = Trimmed(c[2])

C10_Witness ==
    /\ Extracted /\ html = PieceG \o PieceC /\ parsed = Token1024MB
    /\ Cardinality(CanonicalCells) = 1

NoStrategyMatches == \A k \in 1..6 : ~StrategyMatches(k)

\* the megabyte-equivalent of a number+unit token as the specification computes it
\* (KB/1024, MB, GB*1024, TB*1024*1024), as a fraction
SpecMegabytes(value) ==
    LET match  == re_match_at(ValuePattern, value, 1)
        number == float(SubSeq(value, match[2][1][1], match[2][1][2] - 1))
        letter == upper(SubSeq(value, match[2][2][1], match[2][2][2] - 1))
    IN  IF letter = <<75>> THEN <<number[1], number[2] * 1024>>
        ELSE IF letter = <<71>> THEN <<number[1] * 1024, number[2]>>
        ELSE IF letter = <<84>> THEN <<number[1] * 1024 * 1024, number[2]>>
        ELSE number
SpecPlausible(value) ==
    /\ 64 * SpecMegabytes(value)[2] <= SpecMegabytes(value)[1]
    /\ SpecMegabytes(value)[1] <= 8192 * SpecMegabytes(value)[2]
SpecCandidates == SelectSeq(common_memory_values(html), SpecPlausible)

\* C11: when no labeled strategy matches, the result is the first number+unit token in
\* document order whose megabyte-equivalent (KB/1024, MB, GB*1024, TB*1024*1024) lies
\* in [64, 8192], and NotFound if there is none.
C11_PlausibilityScan ==
    (Extracted /\ NoStrategyMatches) =>
        parsed = IF SpecCandidates = <<>> THEN NotFound ELSE SpecCandidates[1]

\* a number, one space, and KB, MB, GB or TB in uppercase
IsNumber(q) ==
    /\ q # <<>>
    /\ IsDigit(q[1]) /\ IsDigit(q[Len(q)])
    /\ \A i \in 1..Len(q) : IsDigit(q[i]) \/ q[i] = 46
    /\ Cardinality({i \in 1..Len(q) : q[i] = 46}) <= 1
IsNormalized(q) ==
    /\ Len(q) >= 4
    /\ SubSeq(q, Len(q) - 1, Len(q)) \in {KB, S("MB"), GB, TB}
    /\ q[Len(q) - 2] = 32
    /\ IsNumber(SubSeq(q, 1, Len(q) - 3))

\* C12: every value the extractor returns other than NotFound is a normalized token.
C12_NormalizedToken ==
    (Extracted /\ parsed # NotFound) => IsNormalized(parsed)

\* C13: a text with neither label string and no number+unit token whose
\* megabyte-equivalent is in [64, 8192] gives NotFound; so does the empty text.
C13_NoLabelNoToken ==
    Extracted =>
        /\ (~Contains(EnLabel, html) /\ ~Contains(JaLabel, html) /\ SpecCandidates = <<>>)
               => parsed = NotFound
        /\ html = <<>> => parsed = NotFound

\* C18: a text without any digit gives NotFound.
C18_NoDigitNotFound ==
    (Extracted /\ \A i \in 1..Len(html) : ~IsDigit(html[i])) => parsed = NotFound

\* the places where q occurs in s
Occurrences(q, s) == {i \in 1..Len(s) : ExactAt(q, 1, s, i)}
\* the recovery of the running call has passed the guard and the injection step
Prepared == Coordinating /\ exCalls = 1 /\ truthy(parsed)

\* C14: on a page text that already contains a label the injection step leaves the text
\* unchanged (in particular on a text a previous recovery prepared), and whatever the
\* number of recoveries a text went through, the synthetic fragment occurs at most once.
C14_InjectionGuarded ==
    Prepared =>
        /\ has_label(html) => (injections = 0 /\ served \in {html, <<>>})
        /\ Cardinality(Occurrences(SectionOpen, served))
               <= Cardinality(Occurrences(SectionOpen, html)) + (IF has_label(html) THEN 0 ELSE 1)
        /\ Cardinality(Occurrences(SectionOpen, served)) <= 1
C14_Witness ==
    /\ Prepared /\ mode = "graceful" /\ pc = "save" /\ calls = 2
    /\ Cardinality(Occurrences(SectionOpen, html)) = 1
    /\ served = html

\* C16: the prepared text is the page with memory_section(T) inserted immediately before
\* the first closing table marker and nothing else changed; without a closing table
\* marker it is a table holding only the fragment, followed by the whole page.
C16_InjectionLocation ==
    (Prepared /\ ~has_label(html)) =>
        LET ps == Occurrences(CloseTable, html)
            p  == CHOOSE i \in ps : \A j \in ps : i <= j
        IN  IF ps # {}
            THEN served = SubSeq(html, 1, p - 1) \o memory_section(parsed)
                              \o SubSeq(html, p, Len(html))
            ELSE served = OpenTable \o memory_section(parsed) \o CloseTable \o html
C16_Witness ==
    /\ Prepared /\ ~has_label(html)
    /\ Cardinality(Occurrences(CloseTable, html)) = 2
    /\ injections = 1

\* C17: while the retried operation runs (graceful mode), a fetch of the problem's own
\* URL is answered with the prepared text and reaches no live fetch; a fetch of any
\* other URL is forwarded to the original get with the same arguments and answered by it.
C17_RetryRouting ==
    (mode = "graceful" /\ pc \in {"retry", "finally", "done"}) =>
        /\ \A i \in 1..Len(gets) :
            IF gets[i].url = Url
            THEN gets[i].answer = served /\ gets[i].forwarded = <<>>
            ELSE /\ gets[i].answer = Live
                 /\ gets[i].forwarded = <<[url |-> gets[i].url, kwargs |-> gets[i].kwargs]>>
        /\ liveHits = Cardinality({i \in 1..Len(gets) : gets[i].url # Url})
        /\ pageFetches <= 1
C17_Witness ==
    /\ mode = "graceful" /\ pc = "done" /\ Len(gets) = 2
    /\ gets[1].url = Url /\ gets[2].url = OtherUrl /\ gets[2].kwargs = "timeout"

AtCoderClasses == {"AtCoderProblem", "AtCoderProblemSubclass"}

\* C15: wrap_atcoder_problem returns a RobustAtCoderProblem around its argument exactly
\* when the argument is an AtCoderProblem instance; any other object, also one that has
\* the same methods, comes back as that very object, and its calls see no recovery.
C15_WrapOnlyAtCoder ==
    (Coordinating \/ mode = "direct") =>
        /\ IF problem.class \in AtCoderClasses
           THEN wrapped.class = "RobustAtCoderProblem" /\ wrapped.original = <<problem>>
           ELSE wrapped = problem
        /\ mode = "direct" => (exCalls = 0 /\ pageFetches = 0 /\ opCalls <= 1)
        /\ (mode = "graceful" /\ pc \notin {"idle", "done"}) =>
               (wrapped.original # <<>> /\ wrapped.original[1].class \in AtCoderClasses)
C15_Witness ==
    /\ mode = "direct" /\ pc = "done"
    /\ problem = MockAtCoder /\ wrapped = problem
    /\ result = Raise(OriginalFailure)

\* a finished call whose first invocation failed as targeted and whose recovery got the page
Recovering ==
    /\ Coordinating /\ pc = "done"
    /\ opErr # <<>> /\ FirstOutcome = OriginalFailure
    /\ mode = "graceful" => (fetchErr = NoErr /\ exCalls = 1)

\* C19: on the same page text the graceful and the strict coordinator take the same
\* decision whether to retry: a call of one mode invokes the wrapped operation a second
\* time exactly when the other mode's rule retries on that text.
C19_SameRetryDecision ==
    Recovering =>
        (Retried <=> IF mode = "graceful" THEN patched_retries(html) ELSE robust_retries(html))

\* C20: when two graceful recoveries sharing one session have both returned, whatever
\* the interleaving of their steps, session.get is the original get again and no later
\* fetch is answered with a substituted page text.
C20_NoLeakedSubstitution ==
    (mode = "concurrent" /\ \A t \in Threads : threads[t].pc = "done") =>
        /\ sessionGet = <<>>
        /\ \A i \in 1..Len(lateGets) : lateGets[i].answer = Live

\* C21: however often apply_atcoder_memory_limit_patch was called, one call of the
\* patched parser invokes the upstream parser at most twice, as after a single
\* application, and no text handed on to a parser carries more than one synthetic fragment.
C21_PatchIdempotent ==
    mode = "patch" =>
        /\ opCalls <= 2
        /\ \A i \in 1..Len(frames) :
               Cardinality(Occurrences(SectionOpen, frames[i].html)) <= 1

=============================================================================
